---------------------------- MODULE Spec2Model ----------------------------
(***************************************************************************)
(* A model of llm-router: the complexity classifier (classifier.ts), the   *)
(* tiered dispatcher with its single default->power fallback (router.ts,   *)
(* class LLMRouter) and the chat-completions handler of the HTTP server    *)
(* (server.ts).                                                            *)
(*                                                                         *)
(* Text.  A text is a finite sequence of fragments.  Every fragment stands *)
(* for one concrete string (table Fragments below) and the text for the    *)
(* concatenation of those strings.  Every fragment ends in a non-word      *)
(* character, so a word never runs across a fragment boundary, and the     *)
(* detectors of the classifier, which are substring tests and regular      *)
(* expressions over the string, are computed fragment by fragment and line *)
(* by line from the tables below.                                          *)
(***************************************************************************)
EXTENDS Integers, Sequences, FiniteSets, TLC

(***************************************************************************)
(* Bounds of the model.                                                    *)
(***************************************************************************)
MaxTextLen == 2      \* fragments in an exhaustively enumerated text
MaxCodeBlock == 20   \* statement lines in an enumerated fenced code block
MaxMessages == 2     \* messages in an exhaustively enumerated conversation
MaxChunks == 3       \* chunks one backend stream delivers
MaxExtraLines == 1   \* lines a large fenced code block has beyond ComplexBlockLines
MaxInFlight == 2     \* calls of the router that run concurrently
MaxInFlightChunks == 1  \* chunks the backend streams of the concurrent calls deliver in all
MaxExtensions == 2    \* times a scored text is extended and scored again

(***************************************************************************)
(* Fragments: name |-> the string it stands for                            *)
(*   "hello"        "hello "             "refactor"  "refactor "           *)
(*   "architecture" "architecture "      "debug"     "debug "              *)
(*   "why"          "why is it slow? "   "step"      "step 1 "             *)
(*   "theory"       "theory "            "python"    "python "             *)
(*   "const"        "const x = 1;"       "x"         "x "                  *)
(*   "q"            "? "                 "LONG"      699 times x, then " " *)
(*   "NL"           the newline          "FENCE"     three backticks       *)
(*   "debugging"    "debugging "         "async"     "async "              *)
(* The enumerated texts are drawn from Fragments; "async" occurs in the    *)
(* texts that are extended.                                                *)
(***************************************************************************)
Fragments ==
  { "hello", "refactor", "architecture", "debug", "why", "step", "theory",
    "python", "const", "x", "q", "LONG", "NL", "FENCE", "debugging" }

\* String.prototype.length of the fragment's string
FragLength(t) ==
  CASE t = "hello" -> 6   [] t = "refactor" -> 9 [] t = "architecture" -> 13
    [] t = "debug" -> 6   [] t = "why" -> 16     [] t = "step" -> 7
    [] t = "theory" -> 7  [] t = "python" -> 7   [] t = "const" -> 12
    [] t = "x" -> 2       [] t = "q" -> 2        [] t = "LONG" -> 700
    [] t = "NL" -> 1      [] t = "FENCE" -> 3    [] t = "debugging" -> 10
    [] t = "async" -> 6

\* the vocabulary entries kw for which fragment.toLowerCase().includes(kw)
FragIncludes(t) ==
  CASE t = "hello" -> {"hello"}
    [] t = "refactor" -> {"refactor"}
    [] t = "architecture" -> {"architect", "architecture", "hi"}
    [] t = "debug" -> {"debug"}
    [] t = "debugging" -> {"debug"}
    [] t = "why" -> {"why is"}
    [] t = "python" -> {"python"}
    [] t = "async" -> {"async"}
    [] OTHER -> {}

\* number of "?" in the fragment
FragQuestionMarks(t) == IF t \in {"why", "q"} THEN 1 ELSE 0

\* fragments that are one word followed by one blank: /```\w*\n?/ removes the
\* word when the fragment directly follows a fence, and a blank is left
SingleWord ==
  { "hello", "refactor", "architecture", "debug", "debugging", "theory", "python", "x", "LONG",
    "async" }

\* fragments that /^[\t ]*(?:const|let|var|...)\b/ matches at the start of a line
CodeStatement == { "const", "async" }

POWER_KEYWORDS ==
  << "architect", "architecture", "design pattern", "refactor", "restructure", "scalab",
     "microservice", "distributed", "system design", "restructurer", "conception",
     "analyze", "analyse", "debug", "diagnose", "investigate", "root cause",
     "performance", "optimize", "bottleneck", "memory leak", "analyser", "débugger",
     "diagnostiquer", "enquêter", "cause racine", "optimiser", "goulot",
     "fuite mémoire", "implement", "algorithm", "data structure", "recursive",
     "dynamic programming", "concurrency", "async", "thread", "race condition",
     "deadlock", "security", "vulnerability", "exploit", "injection", "authentication",
     "implémenter", "algorithme", "structure de données", "récursif",
     "programmation dynamique", "concurrence", "authentification", "vulnérabilité",
     "step by step", "walk me through", "explain how", "compare and contrast",
     "pros and cons", "trade-off", "tradeoff", "best approach", "étape par étape",
     "explique-moi", "explique moi", "comment fonctionne", "compare",
     "avantages et inconvénients", "pour et contre", "meilleure approche", "explain",
     "describe", "elaborate", "summarize", "summary", "explique", "expliquer", "décris",
     "décrire", "résume", "résumer", "résumé", "why does", "why is", "how does",
     "how do", "how can", "pourquoi", "comment faire", "comment est-ce", "research",
     "synthesize", "comprehensive", "in-depth", "thorough", "literature review",
     "state of the art", "recherche", "synthétiser", "approfondi", "complet" >>

SIMPLE_KEYWORDS ==
  << "hello", "hi", "thanks", "thank you", "ok", "yes", "no", "salut", "bonjour",
     "coucou", "merci", "oui", "non", "ça va", "ca va", "what time", "weather",
     "reminder", "status", "list", "send", "message", "email", "check", "quelle heure",
     "météo", "meteo", "rappel", "statut", "liste", "envoie", "envoyer", "message",
     "mail", "vérifie", "vérifier" >>

PROGRAMMING_LANGUAGES ==
  << "typescript", "javascript", "python", "rust", "go", "java", "c++", "cpp",
     "solidity", "sql", "graphql" >>

POWER_KEYWORDS_Legacy ==
  << "architect", "architecture", "design pattern", "refactor", "restructure", "scalab",
     "microservice", "distributed", "system design", "analyze", "analyse", "debug",
     "diagnose", "investigate", "root cause", "performance", "optimize", "bottleneck",
     "memory leak", "implement", "algorithm", "data structure", "recursive",
     "dynamic programming", "concurrency", "async", "thread", "race condition",
     "deadlock", "security", "vulnerability", "exploit", "injection", "authentication",
     "step by step", "walk me through", "explain how", "compare and contrast",
     "pros and cons", "trade-off", "tradeoff", "best approach", "research",
     "synthesize", "comprehensive", "in-depth", "thorough", "literature review",
     "state of the art" >>

SIMPLE_KEYWORDS_Legacy ==
  << "hello", "hi", "thanks", "thank you", "ok", "yes", "no", "what time", "weather",
     "reminder", "status", "list", "send", "message", "email", "check" >>

(***************************************************************************)
(* Helpers on sequences.                                                   *)
(***************************************************************************)
Min(a, b) == IF a < b THEN a ELSE b
Max(a, b) == IF a > b THEN a ELSE b

\* the number of positions of the text that hold fragment f
Occurrences(text, f) == Cardinality({ i \in 1..Len(text) : text[i] = f })

\* the fragments that occur in the text
FragmentsOf(text) == { text[i] : i \in 1..Len(text) }

\* String.prototype.length of the text: the lengths of the fragments fs, each
\* as often as it occurs
RECURSIVE LengthOver(_, _)
LengthOver(text, fs) ==
  IF fs = {} THEN 0
  ELSE LET f == CHOOSE g \in fs : TRUE
       IN  FragLength(f) * Occurrences(text, f) + LengthOver(text, fs \ {f})

SumLength(text) == LengthOver(text, FragmentsOf(text))

\* n times the fragment f
Repeat(f, n) == [ i \in 1..n |-> f ]

\* Array.prototype.reverse
Reverse(s) == [ i \in 1..Len(s) |-> s[Len(s) + 1 - i] ]

\* String.prototype.split('\n'): k newlines give k+1 lines.  LineStarts is the
\* position at which each line starts, LineEnd the position of the newline that
\* ends the line starting at s, or of the end of the text
LineStarts(text) == {1} \cup { i + 1 : i \in { j \in 1..Len(text) : text[j] = "NL" } }

LineEnd(text, s) ==
  LET newlines == { j \in s..Len(text) : text[j] = "NL" }
  IN  IF newlines = {} THEN Len(text) + 1
      ELSE CHOOSE j \in newlines : \A k \in newlines : j <= k

Line(text, s) == SubSeq(text, s, LineEnd(text, s) - 1)

\* Array.prototype.join('\n') of a sequence of texts
RECURSIVE JoinLines(_)
JoinLines(texts) ==
  IF texts = << >> THEN << >>
  ELSE IF Len(texts) = 1 THEN Head(texts)
  ELSE Head(texts) \o << "NL" >> \o JoinLines(Tail(texts))

(***************************************************************************)
(* extractTextContent                                                      *)
(* A message is [role, content]; content is [kind |-> "string", text] or   *)
(* [kind |-> "parts", parts], a part being [type |-> "text", text] or      *)
(* [type |-> "image_url"].                                                 *)
(***************************************************************************)
TextPart(t) == [type |-> "text", text |-> t]
ImagePart == [type |-> "image_url", text |-> << >>]
StringContent(t) == [kind |-> "string", text |-> t, parts |-> << >>]
PartsContent(ps) == [kind |-> "parts", text |-> << >>, parts |-> ps]
\* a content that is neither a string nor an array, as the null of a message that
\* holds tool calls only
NullContent == [kind |-> "null", text |-> << >>, parts |-> << >>]

\* a selection of the parts that lets every part through
TextParts_all(parts) == [ i \in 1..Len(parts) |-> parts[i].text ]

RECURSIVE TextParts(_)
TextParts(parts) ==
  IF parts = << >> THEN << >>
  ELSE IF Head(parts).type = "text" THEN << Head(parts).text >> \o TextParts(Tail(parts))
  ELSE TextParts(Tail(parts))

MessageText(msg) ==
  IF msg.content.kind = "string" THEN msg.content.text
  ELSE IF msg.content.kind = "parts" THEN JoinLines(TextParts(msg.content.parts))
  ELSE << >>

extractTextContent(messages) ==
  JoinLines([ i \in 1..Len(messages) |-> MessageText(messages[i]) ])

(***************************************************************************)
(* countCodeLines                                                          *)
(***************************************************************************)
\* index of the first fence of text at or after position from, 0 when none
NextFence(text, from) ==
  LET fences == { i \in from..Len(text) : text[i] = "FENCE" }
  IN  IF fences = {} THEN 0 ELSE CHOOSE i \in fences : \A j \in fences : i <= j

\* text.match(/```[\s\S]*?```/g): what lies between the fences of each block
RECURSIVE CodeBlocks(_)
CodeBlocks(text) ==
  LET open == NextFence(text, 1)
      close == IF open = 0 THEN 0 ELSE NextFence(text, open + 1)
  IN  IF close = 0 THEN << >>
      ELSE << SubSeq(text, open + 1, close - 1) >>
             \o CodeBlocks(SubSeq(text, close + 1, Len(text)))

\* block.replace(/```\w*\n?/g, '').replace(/```$/g, ''): the fences go, and with
\* the opening fence the word or else the newline that directly follows it
StripFences(inner) ==
  IF inner = << >> THEN << >>
  ELSE IF Head(inner) = "NL" THEN Tail(inner)
  ELSE IF Head(inner) \in SingleWord THEN << "BLANK" >> \o Tail(inner)
  ELSE inner

\* line.trim().length > 0
NonBlankLine(line) == \E i \in 1..Len(line) : line[i] # "BLANK"

\* code.split('\n').filter((line) => line.trim().length > 0).length
CountNonBlank(code) == Cardinality({ s \in LineStarts(code) : NonBlankLine(Line(code, s)) })

RECURSIVE BlockLines(_)
BlockLines(blocks) ==
  IF blocks = << >> THEN 0
  ELSE CountNonBlank(StripFences(Head(blocks))) + BlockLines(Tail(blocks))

inlineCodeLines(text) ==
  Cardinality({ s \in LineStarts(text) : s <= Len(text) /\ text[s] \in CodeStatement })

countCodeLines(text) == BlockLines(CodeBlocks(text)) + inlineCodeLines(text)

(***************************************************************************)
(* countKeywordMatches: keywords.filter(kw => lowerText.includes(kw)).length; *)
(* an entry listed twice counts twice.                                     *)
(***************************************************************************)
\* the vocabulary entries the text includes
Included(text) == UNION { FragIncludes(text[i]) : i \in 1..Len(text) }

countKeywordMatches(text, keywords) ==
  LET included == Included(text)
  IN  Cardinality({ k \in 1..Len(keywords) : keywords[k] \in included })

(***************************************************************************)
(* The pattern families.  Of the fragments only "step 1 " matches a        *)
(* pattern of detectMultiStepReasoning (/step\s*\d/i), only "debug "       *)
(* one of detectDebugging (/bug\b/i), only "why is it slow? " one of       *)
(* deepQuestionPatterns (/\b(why|pourquoi)\b.*\?/i) and only "theory "     *)
(* one of academicPatterns; no pattern matches across two fragments.       *)
(***************************************************************************)
detectMultiStepReasoning(text) == \E i \in 1..Len(text) : text[i] = "step"

detectDebugging(text) == \E i \in 1..Len(text) : text[i] = "debug"

deepQuestionPatterns(text) == \E i \in 1..Len(text) : text[i] = "why"

academicPatterns(text) == \E i \in 1..Len(text) : text[i] = "theory"

\* (text.match(/\?/g) ?? []).length
RECURSIVE QuestionMarksOver(_, _)
QuestionMarksOver(text, fs) ==
  IF fs = {} THEN 0
  ELSE LET f == CHOOSE g \in fs : TRUE
       IN  FragQuestionMarks(f) * Occurrences(text, f) + QuestionMarksOver(text, fs \ {f})

questionCount(text) == QuestionMarksOver(text, FragmentsOf(text))

(***************************************************************************)
(* calculateComplexityScore: each detector gives [points, signals]; the    *)
(* points are summed in the order of the code, the labels pushed in that   *)
(* order, and the sum is clamped at the end.  A label is <<name>> or       *)
(* <<name, number>>.                                                       *)
(***************************************************************************)
Contribution(points, signals) == [points |-> points, signals |-> signals]
Nothing == Contribution(0, << >>)

lengthFactor(length, thresholds) ==
  IF length > thresholds.minLengthForPower
  THEN LET lengthScore == Min(20, (length - thresholds.minLengthForPower) \div 100)
       IN  Contribution(lengthScore,
                        IF lengthScore > 5 THEN << << "long_message", length >> >> ELSE << >>)
  ELSE Nothing

\* a code lines factor whose first comparison admits equality
codeLinesFactor_orEqual(codeLines, thresholds) ==
  IF codeLines >= thresholds.minCodeLinesForPower
  THEN Contribution(Min(25, (codeLines - thresholds.minCodeLinesForPower) \div 2),
                    << << "code", codeLines >> >>)
  ELSE IF codeLines > 10
  THEN Contribution(5, << << "code", codeLines >> >>)
  ELSE Nothing

codeLinesFactor(codeLines, thresholds) ==
  IF codeLines > thresholds.minCodeLinesForPower
  THEN Contribution(Min(25, (codeLines - thresholds.minCodeLinesForPower) \div 2),
                    << << "code", codeLines >> >>)
  ELSE IF codeLines > 10
  THEN Contribution(5, << << "code", codeLines >> >>)
  ELSE Nothing

\* a power keywords factor that adds its points and forgets its label
powerKeywordsFactor_unlabelled(powerMatches) ==
  IF powerMatches > 0 THEN Contribution(Min(40, powerMatches * 10), << >>) ELSE Nothing

powerKeywordsFactor(powerMatches) ==
  IF powerMatches > 0
  THEN Contribution(Min(40, powerMatches * 10), << << "power_keywords", powerMatches >> >>)
  ELSE Nothing

simpleKeywordsFactor(simpleMatches, powerMatches) ==
  IF simpleMatches > 0 /\ powerMatches = 0
  THEN Contribution(0 - Min(10, simpleMatches * 3), << << "simple_keywords", simpleMatches >> >>)
  ELSE Nothing

multiStepFactor(text) ==
  IF detectMultiStepReasoning(text) THEN Contribution(30, << << "multi_step_reasoning" >> >>)
  ELSE Nothing

\* a debugging factor that pushes its label twice
debuggingFactor_twice(text) ==
  IF detectDebugging(text) THEN Contribution(25, << << "debugging" >>, << "debugging" >> >>)
  ELSE Nothing

debuggingFactor(text) ==
  IF detectDebugging(text) THEN Contribution(25, << << "debugging" >> >>) ELSE Nothing

deepQuestionFactor(text, length) ==
  IF deepQuestionPatterns(text) /\ length > 30
  THEN Contribution(15, << << "deep_question" >> >>)
  ELSE Nothing

academicFactor(text) ==
  IF academicPatterns(text) THEN Contribution(15, << << "academic_topic" >> >>) ELSE Nothing

languagesFactor(langMatches) ==
  IF langMatches > 0
  THEN Contribution(Min(5, langMatches * 2), << << "programming", langMatches >> >>)
  ELSE Nothing

questionsFactor(count) ==
  IF count > 2 THEN Contribution(Min(10, count * 2), << << "questions", count >> >>)
  ELSE Nothing

RECURSIVE SumPoints(_)
SumPoints(cs) == IF cs = << >> THEN 0 ELSE Head(cs).points + SumPoints(Tail(cs))

RECURSIVE AllSignals(_)
AllSignals(cs) == IF cs = << >> THEN << >> ELSE Head(cs).signals \o AllSignals(Tail(cs))

\* no clamp
Clamp_none(score) == score

\* score = Math.max(0, Math.min(100, score))
Clamp(score) == Max(0, Min(100, score))

calculateComplexityScore(text, thresholds) ==
  LET length == SumLength(text)
      powerMatches == countKeywordMatches(text, POWER_KEYWORDS)
      factors ==
        << lengthFactor(length, thresholds),
           codeLinesFactor(countCodeLines(text), thresholds),
           powerKeywordsFactor(powerMatches),
           simpleKeywordsFactor(countKeywordMatches(text, SIMPLE_KEYWORDS), powerMatches),
           multiStepFactor(text),
           debuggingFactor(text),
           deepQuestionFactor(text, length),
           academicFactor(text),
           languagesFactor(countKeywordMatches(text, PROGRAMMING_LANGUAGES)),
           questionsFactor(questionCount(text)) >>
  IN  [score |-> Clamp(SumPoints(factors)), signals |-> AllSignals(factors)]

(***************************************************************************)
(* classifyRequest                                                         *)
(***************************************************************************)
\* [...messages].reverse().find((m) => m.role === 'user'): its index in the
\* reversed array, 0 when there is none
RECURSIVE FindUser(_, _)
FindUser(msgs, i) ==
  IF i > Len(msgs) THEN 0
  ELSE IF msgs[i].role = "user" THEN i
  ELSE FindUser(msgs, i + 1)

\* a search from the front: the first message of role user
lastUserText_first(messages) ==
  LET found == FindUser(messages, 1)
  IN  IF found = 0 THEN << >> ELSE extractTextContent(<< messages[found] >>)

lastUserText(messages) ==
  LET reversed == Reverse(messages)
      found == FindUser(reversed, 1)
  IN  IF found = 0 THEN << >> ELSE extractTextContent(<< reversed[found] >>)

\* a selection of the signals that prefers those of the last user message when the
\* two scores are equal
classifyRequest_lastOnTies(messages, thresholds) ==
  LET full == calculateComplexityScore(extractTextContent(messages), thresholds)
      last == calculateComplexityScore(lastUserText(messages), thresholds)
      score == Max(full.score, last.score)
      signals == IF score = last.score THEN last.signals ELSE full.signals
      usePowerModel == score >= thresholds.minScoreForPower
  IN  [ usePowerModel |-> usePowerModel,
        score |-> score,
        signals |-> signals,
        reason |-> IF usePowerModel
                   THEN << "Complexity score", score, ">=", thresholds.minScoreForPower,
                           "signals", signals >>
                   ELSE << "Complexity score", score, "<", thresholds.minScoreForPower,
                           "using default model" >> ]

classifyRequest(messages, thresholds) ==
  LET full == calculateComplexityScore(extractTextContent(messages), thresholds)
      last == calculateComplexityScore(lastUserText(messages), thresholds)
      score == Max(full.score, last.score)
      signals == IF score = full.score THEN full.signals ELSE last.signals
      usePowerModel == score >= thresholds.minScoreForPower
  IN  [ usePowerModel |-> usePowerModel,
        score |-> score,
        signals |-> signals,
        reason |-> IF usePowerModel
                   THEN << "Complexity score", score, ">=", thresholds.minScoreForPower,
                           "signals", signals >>
                   ELSE << "Complexity score", score, "<", thresholds.minScoreForPower,
                           "using default model" >> ]

(***************************************************************************)
(* calculateComplexityScore as src/classifier.ts has it: the shorter       *)
(* vocabularies, other weights, no deep-question and no academic detector. *)
(* Its pattern families match the same fragments.                          *)
(***************************************************************************)
powerKeywordsFactorLegacy(powerMatches) ==
  IF powerMatches > 0
  THEN Contribution(Min(30, powerMatches * 6), << << "power_keywords", powerMatches >> >>)
  ELSE Nothing

multiStepFactorLegacy(text) ==
  IF detectMultiStepReasoning(text) THEN Contribution(15, << << "multi_step_reasoning" >> >>)
  ELSE Nothing

debuggingFactorLegacy(text) ==
  IF detectDebugging(text) THEN Contribution(10, << << "debugging" >> >>) ELSE Nothing

calculateComplexityScoreLegacy(text, thresholds) ==
  LET length == SumLength(text)
      powerMatches == countKeywordMatches(text, POWER_KEYWORDS_Legacy)
      factors ==
        << lengthFactor(length, thresholds),
           codeLinesFactor(countCodeLines(text), thresholds),
           powerKeywordsFactorLegacy(powerMatches),
           simpleKeywordsFactor(countKeywordMatches(text, SIMPLE_KEYWORDS_Legacy), powerMatches),
           multiStepFactorLegacy(text),
           debuggingFactorLegacy(text),
           languagesFactor(countKeywordMatches(text, PROGRAMMING_LANGUAGES)),
           questionsFactor(questionCount(text)) >>
  IN  [score |-> Clamp(SumPoints(factors)), signals |-> AllSignals(factors)]

(***************************************************************************)
(* Inputs.                                                                 *)
(***************************************************************************)
\* every text of at most n fragments
TextsUpTo(n) == UNION { [1..k -> Fragments] : k \in 0..n }

\* a fenced block of k statement lines: fence, newline, k times "const x = 1;" and
\* a newline, fence
FencedBlock(k) ==
  [ i \in 1..(2 * k + 3) |->
      IF i = 1 \/ i = 2 * k + 3 THEN "FENCE" ELSE IF i % 2 = 0 THEN "NL" ELSE "const" ]

\* 'should give high score for complex messages': Array(40).fill('const x = 1;')
ComplexBlockLines == 40

\* a fenced block of k lines that all hold the same fragment, or nothing when line
\* is "": fence, newline, k times the line and a newline, fence
FencedBlockOf(line, k) ==
  IF line = "" THEN << "FENCE" >> \o Repeat("NL", k + 1) \o << "FENCE" >>
  ELSE [ i \in 1..(2 * k + 3) |->
           IF i = 1 \/ i = 2 * k + 3 THEN "FENCE" ELSE IF i % 2 = 0 THEN "NL" ELSE line ]

\* the messages made of one of the given word sequences and a fenced block of
\* ComplexBlockLines lines or more, the words before the block or after it
ComplexMessagesOf(words, lines) ==
  UNION { { w \o << "NL" >> \o FencedBlockOf(l, k), FencedBlockOf(l, k) \o << "NL" >> \o w } :
            w \in words, l \in lines,
            k \in ComplexBlockLines..(ComplexBlockLines + MaxExtraLines) }

\* refactor, architecture and debug, debug as a word or within "debugging"
ComplexWords ==
  { << "refactor", "architecture", "debug" >>, << "hello", "debug", "architecture", "refactor" >> }

ComplexWordsDebugging == { << "refactor", "architecture", "debugging" >> }

\* what the lines of the block hold: a statement, a word, nothing
CodeLineContents == { "const", "x", "" }

ComplexMessages == ComplexMessagesOf(ComplexWords \cup ComplexWordsDebugging, CodeLineContents)

RichText == << "architecture", "debug", "why", "step", "theory", "python" >>

SampleTexts ==
  { FencedBlock(k) : k \in 0..MaxCodeBlock }
    \cup { << "refactor", "architecture", "debug", "NL" >> \o FencedBlock(k) : k \in 0..MaxCodeBlock }
    \cup { Repeat("LONG", k) : k \in 1..4 }
    \cup { << "FENCE", a, "NL", b, "FENCE" >> : a, b \in Fragments }
    \cup { RichText, RichText \o << "NL" >> \o FencedBlock(MaxCodeBlock), << "q", "q", "q" >>,
           << "hello", "x", "q" >> }

Texts == TextsUpTo(MaxTextLen) \cup SampleTexts \cup ComplexMessages

\* ClassificationThresholds: the defaults of loadConfig and three other settings
DefaultThresholds ==
  [minLengthForPower |-> 500, minCodeLinesForPower |-> 30, minScoreForPower |-> 50]

ThresholdSettings ==
  { DefaultThresholds,
    [minLengthForPower |-> 0, minCodeLinesForPower |-> 0, minScoreForPower |-> 0],
    [minLengthForPower |-> 10, minCodeLinesForPower |-> 2, minScoreForPower |-> 30],
    [minLengthForPower |-> -100, minCodeLinesForPower |-> -4, minScoreForPower |-> -1] }

\* RouterConfig, as loadConfig builds it
Config(thresholds) ==
  [ defaultModel |-> [provider |-> "ollama", model |-> "qwen3:14b"],
    powerModel |-> [provider |-> "anthropic", model |-> "claude-opus-4-5-20250205"],
    thresholds |-> thresholds,
    debug |-> FALSE ]

\* createClient: the handle of the backend of a model configuration
createClient(modelConfig) == [provider |-> modelConfig.provider, serves |-> modelConfig.model]

\* the constructor of LLMRouter: one handle per tier
Constructed(routerConfig) ==
  [ default |-> createClient(routerConfig.defaultModel),
    power |-> createClient(routerConfig.powerModel) ]

Message(role, content) == [role |-> role, content |-> content]

\* contents of the messages of an enumerated conversation
MessageContents ==
  { StringContent(t) : t \in { << >>, << "hello" >>, << "debug" >>, << "step" >>, << "why" >> } }
    \cup { PartsContent(<< TextPart(<< "refactor" >>), ImagePart, TextPart(<< "x" >>) >>),
           PartsContent(<< ImagePart >>) }

EnumeratedMessages == { Message(r, c) : r \in {"user", "assistant"}, c \in MessageContents }

ConversationsUpTo(n) == UNION { [1..k -> EnumeratedMessages] : k \in 0..n }

Conversations ==
  ConversationsUpTo(MaxMessages)
    \cup { << Message("user", StringContent(t)) >> : t \in Texts }
    \cup { << Message("system", StringContent(t)), Message("assistant", StringContent(<< "hello" >>)) >> :
             t \in SampleTexts }
    \cup { << Message("assistant", NullContent), Message("user", StringContent(<< "hello" >>)) >>,
           << Message("user", StringContent(<< "x" >>)), Message("assistant", NullContent),
              Message("user", PartsContent(<< ImagePart, TextPart(<< "debug" >>) >>)) >> }

\* the request bodies the dispatcher is driven with
SimpleConversation == << Message("user", StringContent(<< "hello" >>)) >>
ComplexConversation ==
  << Message("user", StringContent(<< "architecture", "debug", "step" >>)),
     Message("assistant", StringContent(<< "x" >>)),
     Message("user", StringContent(<< "hello" >>)) >>

RequestOptions ==
  { [temperature |-> << >>, max_tokens |-> << >>], [temperature |-> << 7 >>, max_tokens |-> << 256 >>] }

Request(hasMessages, messages, stream, options) ==
  [ hasMessages |-> hasMessages, messages |-> messages, stream |-> stream,
    temperature |-> options.temperature, max_tokens |-> options.max_tokens ]

\* a greeting with a question, as 'Hello, how are you?', and a greeting sent as
\* structured content after a turn of the assistant
GreetingConversations ==
  { << Message("user", StringContent(<< "hello", "x", "q" >>)) >>,
    << Message("assistant", StringContent(<< "x" >>)),
       Message("user", PartsContent(<< TextPart(<< "hello" >>), ImagePart >>)) >> }

Requests ==
  { Request(TRUE, m, s, o) :
      m \in { << >>, SimpleConversation, ComplexConversation } \cup GreetingConversations,
      s \in BOOLEAN, o \in RequestOptions }
    \cup { Request(FALSE, << >>, s, o) : s \in BOOLEAN, o \in RequestOptions }

(***************************************************************************)
(* State.                                                                  *)
(***************************************************************************)
VARIABLES
  config,          \* LLMRouter.config
  clients,         \* LLMRouter.defaultClient and LLMRouter.powerClient
  inflight,        \* the calls of routeRequest and routeStreamingRequest that run
                   \* concurrently on the router, each with its local variables
  request,         \* the ChatCompletionRequest being handled
  caller,          \* "server": the POST handler; "direct": a user of the exported LLMRouter
  classification,  \* << >> or << the ClassificationResult of the request >>
  scored,          \* << >> or << what the two calculateComplexityScore return for the text >>
  calls,           \* the chat.completions.create calls issued, in order
  rr,              \* position of routeRequest
  outcome,         \* << >> or << what routeRequest returned or threw >>
  gen,             \* state of the generator of routeStreamingRequest
  genExit,         \* how the generator completed
  upstream,        \* the chunks the backend stream has delivered, in order
  emitted,         \* the chunks the generator has yielded, in order
  stream,          \* the backend stream: its state, "none", "open", "ended" or
                   \* "returned", and the value it failed with
  pc,              \* position of the caller
  reply            \* the HTTP reply of the server

vars ==
  << config, clients, inflight, request, caller, classification, scored, calls, rr, outcome, gen, genExit,
     upstream, emitted, stream, pc, reply >>

routerVars == << calls, rr, outcome, gen, genExit, upstream, emitted, stream, pc, reply >>

NoReply == [status |-> 0, body |-> << >>, headers |-> FALSE, written |-> << >>, ended |-> FALSE]

Idle ==
  /\ calls = << >>
  /\ rr = "idle"
  /\ outcome = << >>
  /\ gen = "none"
  /\ genExit = [how |-> "none", error |-> << >>]
  /\ upstream = << >>
  /\ emitted = << >>
  /\ stream = [state |-> "none", failure |-> << >>]
  /\ pc = "start"
  /\ reply = NoReply

(***************************************************************************)
(* The classifier on its own: classifyRequest and calculateComplexityScore *)
(* are exported, pure functions; they are applied to every enumerated      *)
(* conversation under every threshold setting.                             *)
(***************************************************************************)
InitClassify ==
  /\ config \in { Config(t) : t \in ThresholdSettings }
  /\ request \in { Request(TRUE, m, FALSE, [temperature |-> << >>, max_tokens |-> << >>]) :
                     m \in Conversations }
  /\ caller = "direct"
  /\ clients = Constructed(config)
  /\ inflight = << >>
  /\ classification = << >>
  /\ scored = << >>
  /\ Idle

Classify ==
  /\ classification = << >>
  /\ classification' = << classifyRequest(request.messages, config.thresholds) >>
  /\ UNCHANGED << config, clients, inflight, request, caller, scored, routerVars >>

Score ==
  /\ scored = << >>
  /\ LET text == extractTextContent(request.messages)
     IN  scored' = << [ text |-> text,
                        current |-> calculateComplexityScore(text, config.thresholds),
                        legacy |-> calculateComplexityScoreLegacy(text, config.thresholds) ] >>
  /\ UNCHANGED << config, clients, inflight, request, caller, classification, routerVars >>

NextClassify == Classify \/ Score

SpecClassify == InitClassify /\ [][NextClassify]_vars

(***************************************************************************)
(* calculateComplexityScore on a text that grows: the text is scored, then *)
(* a word is appended to it, to its last line or as a new line, and it is  *)
(* scored again.  scored keeps what every scoring returned, in order.      *)
(***************************************************************************)
\* the words appended: three entries of POWER_KEYWORDS, "async" being a statement
\* keyword of countCodeLines as well, and a statement
AppendedWords == { "refactor", "debug", "async", "const" }

\* the texts the growth starts from: below the code-lines threshold of the default
\* thresholds and at it, without power keywords, with one and with the 40 points
\* of powerKeywordsFactor reached, ending within a line or with a newline
GrowingTexts ==
  { << >>, << "hello" >>, << "x", "async" >>, FencedBlock(14), FencedBlock(15),
    << "x", "async", "NL" >> \o FencedBlock(15) \o << "NL" >>,
    << "refactor", "architecture", "debug", "why", "NL" >> \o FencedBlock(15) }

InitExtend ==
  /\ config \in { Config(t) : t \in ThresholdSettings }
  /\ request \in { Request(TRUE, << Message("user", StringContent(t)) >>, FALSE,
                             [temperature |-> << >>, max_tokens |-> << >>]) :
                     t \in GrowingTexts }
  /\ caller = "direct"
  /\ clients = Constructed(config)
  /\ inflight = << >>
  /\ classification = << >>
  /\ scored = << >>
  /\ Idle

\* the caller appends the word to the text and has the result scored
Extend(word, onNewLine) ==
  /\ scored # << >>
  /\ Len(scored) <= MaxExtensions
  /\ LET text == extractTextContent(request.messages)
             \o (IF onNewLine THEN << "NL", word >> ELSE << word >>)
     IN  /\ request' = [ request EXCEPT !.messages = << Message("user", StringContent(text)) >> ]
         /\ scored' = Append(scored,
                             [ text |-> text,
                               current |-> calculateComplexityScore(text, config.thresholds),
                               legacy |-> calculateComplexityScoreLegacy(text, config.thresholds) ])
  /\ UNCHANGED << config, clients, inflight, caller, classification, routerVars >>

NextExtend ==
  \/ Score
  \/ \E word \in AppendedWords, onNewLine \in BOOLEAN : Extend(word, onNewLine)

SpecExtend == InitExtend /\ [][NextExtend]_vars

(***************************************************************************)
(* The completion backends.  A call of chat.completions.create is settled  *)
(* by the backend: it resolves with a body, which the client library hands *)
(* over unvalidated, or it rejects with a value, which need not be an      *)
(* instance of Error.                                                      *)
(***************************************************************************)
Completions(client) ==
  { [shape |-> "completion", id |-> "chatcmpl-" \o client, model |-> client \o "-served",
     choices |-> << [index |-> 0, role |-> "assistant", content |-> "reply", finish_reason |-> "stop"] >>],
    [shape |-> "malformed", id |-> "chatcmpl-" \o client, model |-> client \o "-served",
     choices |-> << >>] }

Failures ==
  { [instanceOfError |-> TRUE, message |-> "Connection error."],
    [instanceOfError |-> TRUE, message |-> "429 rate limit"],
    [instanceOfError |-> FALSE, message |-> "not an Error"] }

\* what completion.choices.map(...) throws on a body without a choices array
TypeError == [instanceOfError |-> TRUE, message |-> "Cannot read properties of undefined"]

\* the arguments of one chat.completions.create call, and how it was settled
Call(client, model, req, streaming) ==
  [ client |-> client, model |-> model, messages |-> req.messages,
    temperature |-> req.temperature, max_tokens |-> req.max_tokens, stream |-> streaming,
    settled |-> "pending", result |-> << >> ]

Settle(cs, how, result) ==
  [ cs EXCEPT ![Len(cs)] = [ @ EXCEPT !.settled = how, !.result = << result >> ] ]

(***************************************************************************)
(* LLMRouter.routeRequest                                                  *)
(***************************************************************************)
\* a selection that ignores the classification, and one that takes the other tier
Tier_default(c) == "default"
Tier_inverted(c) == IF c.usePowerModel THEN "default" ELSE "power"

Tier(c) == IF c.usePowerModel THEN "power" ELSE "default"

\* a selection that takes the default model's configuration whatever the tier
ModelConfig_default(c) == config.defaultModel

ModelConfig(c) == IF c.usePowerModel THEN config.powerModel ELSE config.defaultModel

\* the ChatCompletionResponse built from a completion; throws on a malformed one
Normalizes(completion) == completion.shape = "completion"

Response(completion, tier, model, score, signals) ==
  [ id |-> completion.id, object |-> "chat.completion", model |-> completion.model,
    choices |-> completion.choices,
    _router |-> [tier |-> tier, model |-> model, score |-> score, signals |-> signals] ]

Returned(response, tier, c) ==
  [kind |-> "returned", response |-> << response >>, tier |-> tier, classification |-> << c >>,
   error |-> << >>]

Thrown(error) ==
  [kind |-> "thrown", response |-> << >>, tier |-> "none", classification |-> << >>,
   error |-> << error >>]

\* return { response, tier, classification } of the try block
FirstResult(completion, c) ==
  Returned(Response(completion, Tier(c), ModelConfig(c).model, c.score, c.signals), Tier(c), c)

\* a catch block that returns the classification's signals as they are
FallbackResult_noMarker(completion, c) ==
  Returned(Response(completion, "power", config.powerModel.model, c.score, c.signals), "power", c)

\* return { response, tier: 'power', classification } of the catch block
FallbackResult(completion, c) ==
  Returned(Response(completion, "power", config.powerModel.model, c.score,
                    c.signals \o << << "fallback_after_error" >> >>),
           "power", c)

\* a catch block that retries whatever the tier was
FallsBack_anyTier(tier, error) == error.instanceOfError

\* if (tier === 'default' && error instanceof Error)
FallsBack(tier, error) == tier = "default" /\ error.instanceOfError

\* classification, selection of the backend and the first create call
BeginRouteRequest ==
  LET c == classifyRequest(request.messages, config.thresholds)
  IN  /\ classification' = << c >>
      /\ calls' = << Call(Tier(c), ModelConfig(c).model, request, FALSE) >>
      /\ rr' = "first"

\* the catch block, entered with the error thrown in the try block
Catch(error, settledCalls) ==
  IF FallsBack(Tier(classification[1]), error)
  THEN /\ calls' = Append(settledCalls, Call("power", config.powerModel.model, request, FALSE))
       /\ rr' = "fallback"
       /\ outcome' = outcome
  ELSE /\ calls' = settledCalls
       /\ rr' = "done"
       /\ outcome' = << Thrown(error) >>

FirstCallResolves(completion) ==
  /\ rr = "first"
  /\ completion \in Completions(calls[1].client)
  /\ LET settledCalls == Settle(calls, "resolved", completion)
     IN  IF Normalizes(completion)
         THEN /\ calls' = settledCalls
              /\ rr' = "done"
              /\ outcome' = << FirstResult(completion, classification[1]) >>
         ELSE Catch(TypeError, settledCalls)
  /\ UNCHANGED << config, clients, inflight, request, caller, classification, scored, gen, genExit, upstream,
                  emitted, stream, pc, reply >>

FirstCallRejects(error) ==
  /\ rr = "first"
  /\ Catch(error, Settle(calls, "rejected", error))
  /\ UNCHANGED << config, clients, inflight, request, caller, classification, scored, gen, genExit, upstream,
                  emitted, stream, pc, reply >>

FallbackCallResolves(completion) ==
  /\ rr = "fallback"
  /\ calls' = Settle(calls, "resolved", completion)
  /\ rr' = "done"
  /\ outcome' = << IF Normalizes(completion)
                   THEN FallbackResult(completion, classification[1])
                   ELSE Thrown(TypeError) >>
  /\ UNCHANGED << config, clients, inflight, request, caller, classification, scored, gen, genExit, upstream,
                  emitted, stream, pc, reply >>

\* a catch block that calls the power backend again when the fallback call fails
FallbackCallRejects_retry(error) ==
  /\ rr = "fallback"
  /\ calls' = Append(Settle(calls, "rejected", error),
                     Call("power", config.powerModel.model, request, FALSE))
  /\ rr' = "fallback"
  /\ UNCHANGED << config, clients, inflight, request, caller, classification, scored, outcome, gen, genExit,
                  upstream, emitted, stream, pc, reply >>

FallbackCallRejects(error) ==
  /\ rr = "fallback"
  /\ calls' = Settle(calls, "rejected", error)
  /\ rr' = "done"
  /\ outcome' = << Thrown(error) >>
  /\ UNCHANGED << config, clients, inflight, request, caller, classification, scored, gen, genExit, upstream,
                  emitted, stream, pc, reply >>

(***************************************************************************)
(* LLMRouter.routeStreamingRequest, an async generator.  gen is            *)
(*   "none"       not called          "suspendedStart"  created, not run   *)
(*   "create"     awaiting create     "pull"   awaiting the next chunk     *)
(*   "yield"      suspended at yield  "completed"                          *)
(***************************************************************************)
OpenedStream == [shape |-> "stream"]

\* the chunks a backend stream may deliver next
Chunks(id) ==
  { [id |-> id, shape |-> "chunk", content |-> p] : p \in {"a", "b"} }
    \cup { [id |-> id, shape |-> "malformed", content |-> ""] }

\* the StreamChunk built from an upstream chunk; chunk.choices.map throws on a
\* chunk without a choices array
NormalizesChunk(chunk) == chunk.shape = "chunk"

StreamChunk(chunk) ==
  [id |-> chunk.id, object |-> "chat.completion.chunk", content |-> chunk.content]

\* a generator that hands the newest chunk over first
yieldChunk_first(sofar, chunk) == << StreamChunk(chunk) >> \o sofar

\* yield { ... } in the body of the for await
yieldChunk(sofar, chunk) == Append(sofar, StreamChunk(chunk))

\* a loop that lets go of the iterator without return() when it is left from its body
forAwaitExit_leak(how) == IF how \in {"done", "rejected"} THEN "ended" ELSE "open"

\* the backend stream once the for await is left: when the stream finished or
\* failed by itself nothing is called on it; when the loop is left from its body
\* (a return() of the consumer, an exception) the iterator's return() is called
forAwaitExit(how) == IF how \in {"done", "rejected"} THEN "ended" ELSE "returned"

Exit(how, error) == [how |-> how, error |-> error]

\* first next(): classification, selection of the backend and the create call
BeginStreaming ==
  LET c == classifyRequest(request.messages, config.thresholds)
  IN  /\ classification' = << c >>
      /\ calls' = << Call(Tier(c), ModelConfig(c).model, request, TRUE) >>
      /\ gen' = "create"

CreateResolves ==
  /\ gen = "create"
  /\ calls' = Settle(calls, "resolved", OpenedStream)
  /\ stream' = [state |-> "open", failure |-> << >>]
  /\ gen' = "pull"
  /\ UNCHANGED << config, clients, inflight, request, caller, classification, scored, rr, outcome, genExit,
                  upstream, emitted, pc, reply >>

CreateRejects(error) ==
  /\ gen = "create"
  /\ calls' = Settle(calls, "rejected", error)
  /\ gen' = "completed"
  /\ genExit' = Exit("threw", << error >>)
  /\ UNCHANGED << config, clients, inflight, request, caller, classification, scored, rr, outcome, upstream,
                  emitted, stream, pc, reply >>

UpstreamChunk(chunk) ==
  /\ gen = "pull"
  /\ Len(upstream) < MaxChunks
  /\ upstream' = Append(upstream, chunk)
  /\ IF NormalizesChunk(chunk)
     THEN /\ emitted' = yieldChunk(emitted, chunk)
          /\ gen' = "yield"
          /\ UNCHANGED << genExit, stream >>
     ELSE /\ gen' = "completed"
          /\ genExit' = Exit("threw", << TypeError >>)
          /\ stream' = [stream EXCEPT !.state = forAwaitExit("throw")]
          /\ UNCHANGED emitted
  /\ UNCHANGED << config, clients, inflight, request, caller, classification, scored, calls, rr, outcome, pc, reply >>

UpstreamDone ==
  /\ gen = "pull"
  /\ gen' = "completed"
  /\ genExit' = Exit("done", << >>)
  /\ stream' = [stream EXCEPT !.state = forAwaitExit("done")]
  /\ UNCHANGED << config, clients, inflight, request, caller, classification, scored, calls, rr, outcome,
                  upstream, emitted, pc, reply >>

UpstreamFails(error) ==
  /\ gen = "pull"
  /\ gen' = "completed"
  /\ genExit' = Exit("threw", << error >>)
  /\ stream' = [state |-> forAwaitExit("rejected"), failure |-> << error >>]
  /\ UNCHANGED << config, clients, inflight, request, caller, classification, scored, calls, rr, outcome,
                  upstream, emitted, pc, reply >>

(***************************************************************************)
(* A direct user of the router: routeRequest, or routeStreamingRequest     *)
(* consumed with next() and left with return() (a break in a for await).   *)
(***************************************************************************)
DirectRouteRequest ==
  /\ pc = "start" /\ caller = "direct" /\ request.hasMessages
  /\ BeginRouteRequest
  /\ pc' = "awaiting"
  /\ UNCHANGED << config, clients, inflight, request, caller, scored, outcome, gen, genExit, upstream, emitted,
                  stream, reply >>

DirectRouteStreamingRequest ==
  /\ pc = "start" /\ caller = "direct" /\ request.hasMessages
  /\ gen' = "suspendedStart"
  /\ pc' = "consuming"
  /\ UNCHANGED << config, clients, inflight, request, caller, classification, scored, calls, rr, outcome, genExit,
                  upstream, emitted, stream, reply >>

DirectFirstNext ==
  /\ pc = "consuming" /\ gen = "suspendedStart"
  /\ BeginStreaming
  /\ UNCHANGED << config, clients, inflight, request, caller, scored, rr, outcome, genExit, upstream, emitted,
                  stream, pc, reply >>

DirectNext ==
  /\ pc = "consuming" /\ gen = "yield"
  /\ gen' = "pull"
  /\ UNCHANGED << config, clients, inflight, request, caller, classification, scored, calls, rr, outcome, genExit,
                  upstream, emitted, stream, pc, reply >>

DirectReturn ==
  /\ pc = "consuming" /\ gen \in {"suspendedStart", "yield"}
  /\ gen' = "completed"
  /\ genExit' = Exit("returned", << >>)
  /\ stream' = IF gen = "yield" THEN [stream EXCEPT !.state = forAwaitExit("return")] ELSE stream
  /\ UNCHANGED << config, clients, inflight, request, caller, classification, scored, calls, rr, outcome,
                  upstream, emitted, pc, reply >>

(***************************************************************************)
(* The handler of POST /v1/chat/completions                                *)
(***************************************************************************)
ChunkEvent(chunk) == [event |-> "chunk", chunk |-> << chunk >>, message |-> ""]
DoneEvent == [event |-> "[DONE]", chunk |-> << >>, message |-> ""]
ErrorEvent(message) == [event |-> "error", chunk |-> << >>, message |-> message]

\* a handler that hides every message
ErrorMessage_unknown(error) == "Unknown error"

\* error instanceof Error ? error.message : 'Unknown error'
ErrorMessage(error) == IF error.instanceOfError THEN error.message ELSE "Unknown error"

\* a handler that forgets the sentinel, and one that reports an error as the end
writeDone_missing(written) == written
writeError_asDone(written, error) == Append(written, [event |-> "[DONE]", chunk |-> << >>, message |-> ""])

\* reply.raw.write(...) of the three kinds of event
writeChunk(written, chunk) == Append(written, ChunkEvent(chunk))
writeDone(written) == Append(written, DoneEvent)
writeError(written, error) == Append(written, ErrorEvent(ErrorMessage(error)))

\* if (!body.messages || !Array.isArray(body.messages))
ServerRejects ==
  /\ pc = "start" /\ caller = "server" /\ ~request.hasMessages
  /\ reply' = [ reply EXCEPT !.status = 400,
                             !.body = << [error |-> "messages array is required",
                                          type |-> "invalid_request_error"] >>,
                             !.ended = TRUE ]
  /\ pc' = "done"
  /\ UNCHANGED << config, clients, inflight, request, caller, classification, scored, calls, rr, outcome, gen,
                  genExit, upstream, emitted, stream >>

\* if (body.stream): the headers, then the for await over routeStreamingRequest(body)
ServerStreams ==
  /\ pc = "start" /\ caller = "server" /\ request.hasMessages /\ request.stream
  /\ reply' = [ reply EXCEPT !.headers = TRUE, !.status = 200 ]
  /\ BeginStreaming
  /\ pc' = "streaming"
  /\ UNCHANGED << config, clients, inflight, request, caller, scored, rr, outcome, genExit, upstream, emitted,
                  stream >>

\* the body of the for await, and the next() that follows it
ServerForwards ==
  /\ pc = "streaming" /\ gen = "yield"
  /\ reply' = [ reply EXCEPT !.written = writeChunk(@, emitted[Len(emitted)]) ]
  /\ gen' = "pull"
  /\ UNCHANGED << config, clients, inflight, request, caller, classification, scored, calls, rr, outcome, genExit,
                  upstream, emitted, stream, pc >>

ServerStreamEnds ==
  /\ pc = "streaming" /\ gen = "completed" /\ genExit.how = "done"
  /\ reply' = [ reply EXCEPT !.written = writeDone(@), !.ended = TRUE ]
  /\ pc' = "done"
  /\ UNCHANGED << config, clients, inflight, request, caller, classification, scored, calls, rr, outcome, gen,
                  genExit, upstream, emitted, stream >>

ServerStreamFails ==
  /\ pc = "streaming" /\ gen = "completed" /\ genExit.how = "threw"
  /\ reply' = [ reply EXCEPT !.written = writeError(@, genExit.error[1]), !.ended = TRUE ]
  /\ pc' = "done"
  /\ UNCHANGED << config, clients, inflight, request, caller, classification, scored, calls, rr, outcome, gen,
                  genExit, upstream, emitted, stream >>

\* non-streaming: await router.routeRequest(body)
ServerRoutes ==
  /\ pc = "start" /\ caller = "server" /\ request.hasMessages /\ ~request.stream
  /\ BeginRouteRequest
  /\ pc' = "awaiting"
  /\ UNCHANGED << config, clients, inflight, request, caller, scored, outcome, gen, genExit, upstream, emitted,
                  stream, reply >>

ServerReplies ==
  /\ pc = "awaiting" /\ caller = "server" /\ rr = "done"
  /\ reply' = IF outcome[1].kind = "returned"
              THEN [ reply EXCEPT !.status = 200, !.body = outcome[1].response, !.ended = TRUE ]
              ELSE [ reply EXCEPT !.status = 500,
                                  !.body = << [error |-> ErrorMessage(outcome[1].error[1]),
                                               type |-> "api_error"] >>,
                                  !.ended = TRUE ]
  /\ pc' = "done"
  /\ UNCHANGED << config, clients, inflight, request, caller, classification, scored, calls, rr, outcome, gen,
                  genExit, upstream, emitted, stream >>

(***************************************************************************)
(* The router behind its two callers.                                      *)
(***************************************************************************)
Init ==
  /\ config = Config(DefaultThresholds)
  /\ request \in Requests
  /\ caller \in {"server", "direct"}
  /\ clients = Constructed(config)
  /\ inflight = << >>
  /\ classification = << >>
  /\ scored = << >>
  /\ Idle

Next ==
  \/ ServerRejects
  \/ ServerStreams
  \/ ServerForwards
  \/ ServerStreamEnds
  \/ ServerStreamFails
  \/ ServerRoutes
  \/ ServerReplies
  \/ DirectRouteRequest
  \/ DirectRouteStreamingRequest
  \/ DirectFirstNext
  \/ DirectNext
  \/ DirectReturn
  \/ \E completion \in Completions("default") \cup Completions("power") : FirstCallResolves(completion)
  \/ \E error \in Failures : FirstCallRejects(error)
  \/ \E completion \in Completions("power") : FallbackCallResolves(completion)
  \/ \E error \in Failures : FallbackCallRejects(error)
  \/ CreateResolves
  \/ \E error \in Failures : CreateRejects(error)
  \/ \E chunk \in Chunks(Len(upstream) + 1) : UpstreamChunk(chunk)
  \/ UpstreamDone
  \/ \E error \in Failures : UpstreamFails(error)

Spec == Init /\ [][Next]_vars

\* the backend settles a pending call of routeRequest, with a reply or a failure
FirstCallCompletes ==
  \/ \E completion \in Completions("default") \cup Completions("power") : FirstCallResolves(completion)
  \/ \E error \in Failures : FirstCallRejects(error)

FallbackCallCompletes ==
  \/ \E completion \in Completions("power") : FallbackCallResolves(completion)
  \/ \E error \in Failures : FallbackCallRejects(error)

\* the router behind its callers, every backend call of routeRequest completing
SpecCallsComplete == Spec /\ WF_vars(FirstCallCompletes) /\ WF_vars(FallbackCallCompletes)

(***************************************************************************)
(* Concurrent calls on one router.  Every call of routeRequest and of      *)
(* routeStreamingRequest has its own local variables (classification,      *)
(* tier, client, modelConfig, the completion or the stream); the calls     *)
(* share the router's config and its two clients, and their steps          *)
(* interleave at every await.                                              *)
(***************************************************************************)
InFlight == 1..MaxInFlight

\* the local variables of a call that has not begun
NotStarted(req, method) ==
  [ request |-> req, method |-> method, started |-> FALSE, classification |-> << >>,
    calls |-> << >>, rr |-> "idle", outcome |-> << >>, gen |-> "none",
    genExit |-> Exit("none", << >>), upstream |-> << >>, emitted |-> << >>,
    stream |-> [state |-> "none", failure |-> << >>] ]

\* the backend outcomes the concurrent calls are driven with
InFlightFailures ==
  { [instanceOfError |-> TRUE, message |-> "Connection error."],
    [instanceOfError |-> FALSE, message |-> "not an Error"] }

\* what the create call or the stream of a streaming call fails with
InFlightStreamFailures == { [instanceOfError |-> TRUE, message |-> "Connection error."] }

InFlightChunks(id) == { [id |-> id, shape |-> "chunk", content |-> "a"] }

InFlightRequests ==
  { Request(TRUE, m, FALSE, [temperature |-> << >>, max_tokens |-> << >>]) :
      m \in { SimpleConversation, ComplexConversation } }

\* the chunks delivered to the concurrent calls so far
RECURSIVE Delivered(_)
Delivered(n) == IF n = 0 THEN 0 ELSE Len(inflight[n].upstream) + Delivered(n - 1)

\* a tier kept in a field of the router, which another call that has begun has
\* overwritten
tierOf_shared(r) ==
  LET others == { q \in InFlight : q # r /\ inflight[q].started }
  IN  IF others = {} THEN Tier(inflight[r].classification[1])
      ELSE Tier(inflight[CHOOSE q \in others : TRUE].classification[1])

\* const tier = classification.usePowerModel ? 'power' : 'default', of call r
tierOf(r) == Tier(inflight[r].classification[1])

\* the call runs up to its first await: classification, selection, create
Begins(r) ==
  /\ ~inflight[r].started
  /\ LET L == inflight[r]
         c == classifyRequest(L.request.messages, config.thresholds)
         streaming == L.method = "routeStreamingRequest"
         begun == [ L EXCEPT !.started = TRUE,
                             !.classification = << c >>,
                             !.calls = << Call(Tier(c), ModelConfig(c).model, L.request, streaming) >> ]
     IN  inflight' = [ inflight EXCEPT ![r] =
                         IF streaming THEN [ begun EXCEPT !.gen = "create" ]
                         ELSE [ begun EXCEPT !.rr = "first" ] ]
  /\ UNCHANGED << config, clients, request, caller, classification, scored, routerVars >>

\* the catch block of call r
Caught(r, error, settledCalls) ==
  LET L == inflight[r]
  IN  IF FallsBack(tierOf(r), error)
      THEN [ L EXCEPT !.calls = Append(settledCalls,
                                       Call("power", config.powerModel.model, L.request, FALSE)),
                      !.rr = "fallback" ]
      ELSE [ L EXCEPT !.calls = settledCalls, !.rr = "done", !.outcome = << Thrown(error) >> ]

\* the pending create of routeRequest r resolves
Resolves(r, completion) ==
  /\ inflight[r].rr \in {"first", "fallback"}
  /\ LET L == inflight[r]
         settledCalls == Settle(L.calls, "resolved", completion)
         c == L.classification[1]
     IN  /\ completion \in Completions(L.calls[Len(L.calls)].client)
         /\ inflight' = [ inflight EXCEPT ![r] =
              IF Normalizes(completion)
              THEN [ L EXCEPT !.calls = settledCalls, !.rr = "done",
                              !.outcome = << IF L.rr = "first" THEN FirstResult(completion, c)
                                             ELSE FallbackResult(completion, c) >> ]
              ELSE IF L.rr = "first" THEN Caught(r, TypeError, settledCalls)
              ELSE [ L EXCEPT !.calls = settledCalls, !.rr = "done",
                              !.outcome = << Thrown(TypeError) >> ] ]
  /\ UNCHANGED << config, clients, request, caller, classification, scored, routerVars >>

\* the pending create of routeRequest r rejects
Rejects(r, error) ==
  /\ inflight[r].rr \in {"first", "fallback"}
  /\ LET L == inflight[r]
         settledCalls == Settle(L.calls, "rejected", error)
     IN  inflight' = [ inflight EXCEPT ![r] =
              IF L.rr = "first" THEN Caught(r, error, settledCalls)
              ELSE [ L EXCEPT !.calls = settledCalls, !.rr = "done",
                              !.outcome = << Thrown(error) >> ] ]
  /\ UNCHANGED << config, clients, request, caller, classification, scored, routerVars >>

\* the pending create of routeStreamingRequest r resolves with a stream, or rejects
Opens(r) ==
  /\ inflight[r].gen = "create"
  /\ inflight' = [ inflight EXCEPT ![r] =
                     [ @ EXCEPT !.calls = Settle(@, "resolved", OpenedStream),
                                !.stream = [state |-> "open", failure |-> << >>],
                                !.gen = "pull" ] ]
  /\ UNCHANGED << config, clients, request, caller, classification, scored, routerVars >>

OpenRejects(r, error) ==
  /\ inflight[r].gen = "create"
  /\ inflight' = [ inflight EXCEPT ![r] =
                     [ @ EXCEPT !.calls = Settle(@, "rejected", error),
                                !.gen = "completed",
                                !.genExit = Exit("threw", << error >>) ] ]
  /\ UNCHANGED << config, clients, request, caller, classification, scored, routerVars >>

\* the stream of call r delivers a chunk, ends, or fails
Delivers(r, chunk) ==
  /\ inflight[r].gen = "pull"
  /\ Delivered(MaxInFlight) < MaxInFlightChunks
  /\ LET L == [ inflight[r] EXCEPT !.upstream = Append(@, chunk) ]
     IN  inflight' = [ inflight EXCEPT ![r] =
              IF NormalizesChunk(chunk)
              THEN [ L EXCEPT !.emitted = yieldChunk(@, chunk), !.gen = "yield" ]
              ELSE [ L EXCEPT !.gen = "completed",
                              !.genExit = Exit("threw", << TypeError >>),
                              !.stream = [ @ EXCEPT !.state = forAwaitExit("throw") ] ] ]
  /\ UNCHANGED << config, clients, request, caller, classification, scored, routerVars >>

Ends(r) ==
  /\ inflight[r].gen = "pull"
  /\ inflight' = [ inflight EXCEPT ![r] =
                     [ @ EXCEPT !.gen = "completed",
                                !.genExit = Exit("done", << >>),
                                !.stream = [ @ EXCEPT !.state = forAwaitExit("done") ] ] ]
  /\ UNCHANGED << config, clients, request, caller, classification, scored, routerVars >>

Fails(r, error) ==
  /\ inflight[r].gen = "pull"
  /\ inflight' = [ inflight EXCEPT ![r] =
                     [ @ EXCEPT !.gen = "completed",
                                !.genExit = Exit("threw", << error >>),
                                !.stream = [state |-> forAwaitExit("rejected"),
                                            failure |-> << error >>] ] ]
  /\ UNCHANGED << config, clients, request, caller, classification, scored, routerVars >>

\* the consumer of call r asks for the next chunk
Pulls(r) ==
  /\ inflight[r].gen = "yield"
  /\ inflight' = [ inflight EXCEPT ![r] = [ @ EXCEPT !.gen = "pull" ] ]
  /\ UNCHANGED << config, clients, request, caller, classification, scored, routerVars >>

InitConcurrent ==
  /\ config = Config(DefaultThresholds)
  /\ clients = Constructed(config)
  /\ inflight \in [ InFlight -> { NotStarted(req, method) :
                                   req \in InFlightRequests,
                                   method \in {"routeRequest", "routeStreamingRequest"} } ]
  /\ request = Request(FALSE, << >>, FALSE, [temperature |-> << >>, max_tokens |-> << >>])
  /\ caller = "direct"
  /\ classification = << >>
  /\ scored = << >>
  /\ Idle

NextConcurrent ==
  \E r \in InFlight :
    \/ Begins(r)
    \/ \E completion \in Completions("default") \cup Completions("power") : Resolves(r, completion)
    \/ \E error \in InFlightFailures : Rejects(r, error)
    \/ Opens(r)
    \/ \E error \in InFlightStreamFailures : OpenRejects(r, error)
    \/ \E chunk \in InFlightChunks(Len(inflight[r].upstream) + 1) : Delivers(r, chunk)
    \/ Ends(r)
    \/ \E error \in InFlightStreamFailures : Fails(r, error)
    \/ Pulls(r)

SpecConcurrent == InitConcurrent /\ [][NextConcurrent]_vars

(***************************************************************************)
(* Properties of routeRequest.                                             *)
(***************************************************************************)
FallbackMarker == << "fallback_after_error" >>

\* routeRequest is over, its first call went to the default backend and was
\* rejected, its second call went to the power backend and resolved with a completion
FellBackWithSuccess ==
  /\ rr = "done"
  /\ Len(calls) = 2
  /\ calls[1].client = "default" /\ calls[1].settled = "rejected"
  /\ calls[2].client = "power" /\ calls[2].settled = "resolved"
  /\ Normalizes(calls[2].result[1])

\* C1: a request classified to the default tier whose default call fails and whose
\* power call then succeeds is answered with tier power; _router carries tier power,
\* the power model, the classification's score and the classification's signals
\* followed by the one marker fallback_after_error; the classification returned
\* has no such marker; the second call has the messages, temperature and max_tokens
\* of the first.
C1_FallbackResult ==
  FellBackWithSuccess =>
    LET o == outcome[1]
        c == classification[1]
    IN  /\ o.kind = "returned"
        /\ o.tier = "power"
        /\ o.response[1]._router =
             [ tier |-> "power", model |-> config.powerModel.model, score |-> c.score,
               signals |-> c.signals \o << FallbackMarker >> ]
        /\ o.response[1].id = calls[2].result[1].id
        /\ o.classification = << c >>
        /\ c = classifyRequest(request.messages, config.thresholds)
        /\ ~c.usePowerModel
        /\ \A i \in 1..Len(c.signals) : c.signals[i] # FallbackMarker
        /\ calls[2].messages = calls[1].messages /\ calls[1].messages = request.messages
        /\ calls[2].temperature = calls[1].temperature
        /\ calls[1].temperature = request.temperature
        /\ calls[2].max_tokens = calls[1].max_tokens
        /\ calls[1].max_tokens = request.max_tokens
        /\ ~calls[1].stream /\ ~calls[2].stream

C1_Witness ==
  /\ FellBackWithSuccess
  /\ classification[1].signals # << >>
  /\ request.temperature # << >>

\* C2: whenever the request is classified to the default tier and the default call
\* fails, with whatever value, the power backend is called exactly once as a retry.
C2_RetriesOnEveryFailure ==
  (rr = "done" /\ calls[1].client = "default" /\ calls[1].settled = "rejected")
    => (Len(calls) = 2 /\ calls[2].client = "power")

\* C3: a failed call to the power backend, as the selected tier or as the fallback,
\* is the last call of routeRequest, and routeRequest throws the very value that call
\* was rejected with.
C3_PowerFailurePropagates ==
  \A i \in 1..Len(calls) :
    (~calls[i].stream /\ calls[i].client = "power" /\ calls[i].settled = "rejected")
      => /\ i = Len(calls)
         /\ rr = "done"
         /\ outcome = << Thrown(calls[i].result[1]) >>

C3_Witness ==
  /\ rr = "done"
  /\ Len(calls) = 2
  /\ calls[2].settled = "rejected"
  /\ calls[1].result # calls[2].result
  /\ outcome[1].error = calls[2].result

\* C4: routeRequest makes one or two backend calls; two only when the first went to
\* the default backend and failed; the second goes to the power backend; no backend
\* is called twice.
C4_OneOrTwoCalls ==
  rr = "done" =>
    /\ Len(calls) \in {1, 2}
    /\ Len(calls) = 2 =>
         /\ calls[1].client = "default" /\ calls[1].settled = "rejected"
         /\ calls[2].client = "power"
    /\ \A i, j \in 1..Len(calls) : i # j => calls[i].client # calls[j].client

(***************************************************************************)
(* Properties of the classifier, under SpecClassify.                       *)
(***************************************************************************)
\* the score of a text under the thresholds of the configuration
ScoreOf(text) == calculateComplexityScore(text, config.thresholds).score

\* the positions of the messages of role user
UserTurns(messages) == { i \in 1..Len(messages) : messages[i].role = "user" }

\* the text of the most recent message of role user, the empty text without one
MostRecentUserText(messages) ==
  IF UserTurns(messages) = {} THEN << >>
  ELSE MessageText(messages[CHOOSE i \in UserTurns(messages) :
                              \A j \in UserTurns(messages) : j <= i])

\* C5: classifyRequest returns score = max(fullScore, lastScore) and usePowerModel =
\* (that maximum >= minScoreForPower), fullScore being the score of the text of the
\* whole conversation and lastScore the score of the text of the most recent user
\* message, or of the empty text when there is none.
C5_DecisionIsMaxAgainstThreshold ==
  classification # << >> =>
    LET fullScore == ScoreOf(extractTextContent(request.messages))
        lastScore == ScoreOf(MostRecentUserText(request.messages))
        best == IF fullScore >= lastScore THEN fullScore ELSE lastScore
    IN  /\ classification[1].score = best
        /\ classification[1].usePowerModel = (best >= config.thresholds.minScoreForPower)

\* classified to the power tier by the last user turn alone, which outscores the
\* whole conversation, two user turns being present
C5_Witness ==
  /\ classification # << >>
  /\ classification[1].usePowerModel
  /\ Cardinality(UserTurns(request.messages)) = 2
  /\ ScoreOf(MostRecentUserText(request.messages)) > ScoreOf(extractTextContent(request.messages))
  /\ ScoreOf(extractTextContent(request.messages)) < config.thresholds.minScoreForPower

\* C6: the score calculateComplexityScore returns, in either version of the
\* classifier, and the score of every ClassificationResult lie in 0..100.
C6_ScoreInRange ==
  /\ scored # << >> =>
       /\ scored[1].current.score \in 0..100
       /\ scored[1].legacy.score \in 0..100
  /\ classification # << >> => classification[1].score \in 0..100

\* a text whose detectors add up to more than 100 has been scored
C6_Witness ==
  /\ scored # << >>
  /\ scored[1].text = RichText
  /\ config.thresholds = DefaultThresholds
  /\ scored[1].current.score = 100
  /\ Len(scored[1].current.signals) = 6

(***************************************************************************)
(* Properties of routeStreamingRequest and of the streaming reply.         *)
(***************************************************************************)
\* the StreamChunks of the first n upstream chunks, in upstream order
Forwarded(n) == [ i \in 1..n |-> StreamChunk(upstream[i]) ]

\* C7: the chunks emitted are the upstream chunks, one for one and in the order
\* received: at any moment the upstream chunks received so far, but for a last one
\* on which the generator threw, and all of them when the generator completes.
C7_ChunksInUpstreamOrder ==
  /\ Len(emitted) <= Len(upstream)
  /\ emitted = Forwarded(Len(emitted))
  /\ Len(emitted) < Len(upstream) =>
       /\ Len(emitted) = Len(upstream) - 1
       /\ ~NormalizesChunk(upstream[Len(upstream)])
       /\ gen = "completed" /\ genExit.how = "threw"
  /\ (gen = "completed" /\ genExit.how = "done") => Len(emitted) = Len(upstream)

C7_Witness ==
  /\ gen = "completed" /\ genExit.how = "done"
  /\ Len(emitted) >= 2
  /\ emitted[1].content # emitted[2].content

\* the backend stream failed after at least one chunk had been emitted
FailedMidStream == stream.failure # << >> /\ Len(emitted) >= 1

\* the events of the chunks emitted, in order
ChunkEvents == [ i \in 1..Len(emitted) |-> ChunkEvent(emitted[i]) ]

\* C8: when the upstream stream fails after chunks have been emitted there is no
\* fallback: the one backend call stays the only one, the consumer gets the
\* stream's error after the chunks emitted, and these stay as they were delivered;
\* the server has written them, and after them the error.
C8_NoMidStreamFallback ==
  FailedMidStream =>
    /\ Len(calls) = 1
    /\ gen = "completed"
    /\ genExit = Exit("threw", stream.failure)
    /\ emitted = Forwarded(Len(upstream))
    /\ (caller = "server" /\ pc = "done") =>
         reply.written = ChunkEvents \o << ErrorEvent(ErrorMessage(stream.failure[1])) >>
    /\ (caller = "server" /\ pc # "done") => reply.written = ChunkEvents

C8_Witness ==
  /\ FailedMidStream
  /\ caller = "server" /\ pc = "done"
  /\ Len(emitted) >= 2
  /\ classification[1].usePowerModel = FALSE

\* C9: however the generator is left (the consumer's return(), an error, the end of
\* the stream), the backend stream is not left open, and nothing is emitted or
\* pulled from the backend afterwards.
C9_StreamReleasedOnExit ==
  /\ [](gen = "completed" => stream.state \in {"none", "ended", "returned"})
  /\ [][gen = "completed" =>
          (gen' = "completed" /\ emitted' = emitted /\ upstream' = upstream /\ calls' = calls)]_vars

C9_Witness ==
  /\ gen = "completed" /\ genExit.how = "returned"
  /\ Len(emitted) >= 1
  /\ stream.state = "returned"

\* the events written before the terminal one
WrittenChunks == IF reply.ended THEN SubSeq(reply.written, 1, Len(reply.written) - 1)
                 ELSE reply.written

\* C10: for a streaming request the server writes one event per chunk, in order, and
\* ends the response with exactly one terminal event, [DONE] when the sequence
\* completed and an error event when it threw; nothing follows the terminal event
\* and the response is ended on both paths.
C10_OneTerminalEvent ==
  (caller = "server" /\ request.hasMessages /\ request.stream) =>
    /\ Len(WrittenChunks) <= Len(emitted)
    /\ WrittenChunks = SubSeq(ChunkEvents, 1, Len(WrittenChunks))
    /\ reply.ended <=> pc = "done"
    /\ reply.ended =>
         /\ Len(reply.written) = Len(emitted) + 1
         /\ gen = "completed"
         /\ genExit.how = "done" => reply.written[Len(reply.written)] = DoneEvent
         /\ genExit.how = "threw" =>
              reply.written[Len(reply.written)] = ErrorEvent(ErrorMessage(genExit.error[1]))
         /\ genExit.how \in {"done", "threw"}

C10_Witness ==
  /\ caller = "server" /\ request.stream /\ pc = "done"
  /\ Len(emitted) >= 2
  /\ reply.written[Len(reply.written)] = DoneEvent

(***************************************************************************)
(* Properties of the non-streaming reply and of the validation.            *)
(***************************************************************************)
\* the handler was given a messages array and no stream flag
NonStreaming == caller = "server" /\ request.hasMessages /\ ~request.stream

\* C11: for a non-streaming request with a messages array the server replies with
\* status 200 and the response routeRequest returned, or with status 500 and the
\* envelope { error: { message, type: 'api_error' } } whose message is that of the
\* error routeRequest threw ('Unknown error' for a thrown value that is no Error);
\* nothing is replied before routeRequest is over and there is no third outcome.
C11_NonStreamingReplies ==
  NonStreaming =>
    /\ pc # "done" => reply = NoReply
    /\ pc = "done" =>
         /\ rr = "done"
         /\ reply.ended /\ reply.written = << >> /\ ~reply.headers
         /\ reply.status \in {200, 500}
         /\ reply.status = 200 <=> outcome[1].kind = "returned"
         /\ reply.status = 200 =>
              /\ reply.body = outcome[1].response
              /\ reply.body[1]._router.tier = outcome[1].tier
         /\ reply.status = 500 =>
              LET error == outcome[1].error[1]
              IN  /\ error.instanceOfError =>
                       reply.body = << [error |-> error.message, type |-> "api_error"] >>
                  /\ ~error.instanceOfError =>
                       reply.body = << [error |-> "Unknown error", type |-> "api_error"] >>

\* replied 500 with the message of the error the power backend failed with, after
\* the fallback
C11_Witness ==
  /\ NonStreaming /\ pc = "done"
  /\ reply.status = 500
  /\ Len(calls) = 2
  /\ reply.body[1].error = "429 rate limit"

\* C12: a request whose message list is missing or empty is answered by the server
\* with status 400 and an error body; no classification and no backend call takes
\* place for it.
C12_RejectsMissingOrEmpty ==
  (caller = "server" /\ (~request.hasMessages \/ request.messages = << >>)) =>
    /\ classification = << >>
    /\ calls = << >>
    /\ rr = "idle" /\ gen = "none"
    /\ pc = "done" =>
         /\ reply.status = 400
         /\ reply.body = << [error |-> "messages array is required",
                             type |-> "invalid_request_error"] >>

(***************************************************************************)
(* Properties of the classifier on particular inputs, under SpecClassify.  *)
(***************************************************************************)
\* thresholds none of whose fields is negative
NonNegative(thresholds) ==
  /\ thresholds.minLengthForPower >= 0
  /\ thresholds.minCodeLinesForPower >= 0
  /\ thresholds.minScoreForPower >= 0

\* the empty text was scored with no score and no signal
EmptyTextScoresNothing ==
  (scored # << >> /\ scored[1].text = << >>) =>
    /\ scored[1].current = [score |-> 0, signals |-> << >>]
    /\ scored[1].legacy = [score |-> 0, signals |-> << >>]

\* C13, as stated: under thresholds with non-negative fields the empty text scores 0
\* with no signals, and the empty message sequence is classified with score 0 to
\* the default tier.
C13_EmptyInputToDefaultTier ==
  NonNegative(config.thresholds) =>
    /\ EmptyTextScoresNothing
    /\ (classification # << >> /\ request.messages = << >>) =>
         /\ classification[1].score = 0
         /\ ~classification[1].usePowerModel

\* C13, amended: under thresholds with non-negative fields the empty text scores 0
\* with no signals, and the empty message sequence is classified with score 0 and
\* no signals, to the default tier when minScoreForPower is positive and to the
\* power tier when minScoreForPower is 0.
C13_EmptyInput ==
  NonNegative(config.thresholds) =>
    /\ EmptyTextScoresNothing
    /\ (classification # << >> /\ request.messages = << >>) =>
         /\ classification[1].score = 0
         /\ classification[1].signals = << >>
         /\ classification[1].usePowerModel <=> config.thresholds.minScoreForPower = 0

\* the empty conversation was scored and classified under thresholds that are all 0
C13_Witness ==
  /\ request.messages = << >>
  /\ scored # << >> /\ scored[1].text = << >>
  /\ classification # << >>
  /\ config.thresholds.minScoreForPower = 0
  /\ classification[1].usePowerModel

(***************************************************************************)
(* Properties of the dispatch, streaming or not.                           *)
(***************************************************************************)
\* the call to the default backend failed with an Error: create was rejected, or,
\* for a streaming call, the stream failed before its first chunk
DefaultCallFailed ==
  /\ Len(calls) >= 1
  /\ calls[1].client = "default"
  /\ \/ calls[1].settled = "rejected" /\ calls[1].result[1].instanceOfError
     \/ /\ calls[1].stream /\ upstream = << >>
        /\ stream.failure # << >> /\ stream.failure[1].instanceOfError

\* C15: whenever the call to the default backend fails, for a streaming request as
\* for a non-streaming one, the power backend is called next with the same request.
C15_FallsBackStreamingToo ==
  DefaultCallFailed =>
    /\ Len(calls) = 2
    /\ calls[2].client = "power"
    /\ calls[2].stream = calls[1].stream
    /\ calls[2].messages = calls[1].messages

\* the configured model identifier of a tier
ConfiguredModel(tier) == IF tier = "power" THEN config.powerModel.model ELSE config.defaultModel.model

\* routeRequest returned a response
Succeeded == rr = "done" /\ outcome[1].kind = "returned"

\* C16: for every successful routeRequest the metadata names the backend whose
\* reply is returned: the tier returned is _router.tier, the last call went to the
\* backend of that tier, with its configured model, which is _router.model, and
\* resolved with the reply returned; _router.score is the classification's score;
\* when no fallback took place _router.tier is power exactly when usePowerModel is
\* true and _router.signals are the classification's signals.
C16_MetadataNamesBackend ==
  Succeeded =>
    LET o == outcome[1]
        meta == o.response[1]._router
        c == o.classification[1]
        last == calls[Len(calls)]
    IN  /\ o.tier = meta.tier
        /\ meta.tier \in {"default", "power"}
        /\ last.client = meta.tier
        /\ last.settled = "resolved"
        /\ o.response[1].id = last.result[1].id
        /\ o.response[1].choices = last.result[1].choices
        /\ meta.model = ConfiguredModel(meta.tier)
        /\ last.model = meta.model
        /\ c = classification[1]
        /\ meta.score = c.score
        /\ Len(calls) = 1 =>
             /\ meta.tier = "power" <=> c.usePowerModel
             /\ meta.signals = c.signals

\* a request classified to the power tier was answered by the power backend
C16_Witness ==
  /\ Succeeded
  /\ Len(calls) = 1
  /\ classification[1].usePowerModel
  /\ outcome[1].response[1]._router.model = config.powerModel.model

\* the tier the classification of the request stands for
ClassifiedTier == IF classification[1].usePowerModel THEN "power" ELSE "default"

\* the try block of routeRequest threw an Error on its first call: the call was
\* rejected with one, or its reply could not be normalised
FirstAttemptThrewError ==
  \/ calls[1].settled = "rejected" /\ calls[1].result[1].instanceOfError
  \/ calls[1].settled = "resolved" /\ ~Normalizes(calls[1].result[1])

\* every backend call follows the classification of the request
CallsFollowClassification ==
  calls # << >> =>
    /\ classification = << classifyRequest(request.messages, config.thresholds) >>
    /\ calls[1].client = ClassifiedTier
    /\ calls[1].model = ConfiguredModel(ClassifiedTier)
    /\ calls[1].messages = request.messages
    /\ \A i \in 2..Len(calls) :
         /\ i = 2
         /\ ~calls[1].stream /\ ~calls[2].stream
         /\ ClassifiedTier = "default"
         /\ calls[2].client = "power"
         /\ FirstAttemptThrewError
    /\ (Succeeded /\ Len(calls) = 1) => outcome[1].tier = ClassifiedTier

\* C18: in routeRequest and in routeStreamingRequest the classification is there
\* when the first backend call is issued and that call goes to the backend the
\* classification chose; classifying issues no call; the classification, once
\* made, does not change, and only the fallback rule sends a call elsewhere.
C18_ClassificationBeforeDispatch ==
  /\ [](CallsFollowClassification /\ (classification = << >> => calls = << >>))
  /\ [][classification # << >> => classification' = classification]_vars
  /\ [][(classification = << >> /\ classification' # << >>) => Len(calls') = 1]_vars

\* a streaming request classified to the power tier is being served by the power
\* backend
C18_Witness ==
  /\ calls # << >>
  /\ calls[1].stream
  /\ calls[1].client = "power"
  /\ classification[1].usePowerModel
  /\ Len(emitted) >= 1

(***************************************************************************)
(* Termination of routeRequest, under SpecCallsComplete.                   *)
(***************************************************************************)
\* how far routeRequest has got
Progress(position) ==
  CASE position = "idle" -> 0
    [] position = "first" -> 1
    [] position = "fallback" -> 2
    [] position = "done" -> 3

\* routeRequest is over with a response or with the error of its last attempt
EndsWithResponseOrError ==
  rr = "done" =>
    LET last == calls[Len(calls)]
    IN  /\ Len(outcome) = 1
        /\ Len(calls) \in {1, 2}
        /\ \A i \in 1..Len(calls) : calls[i].settled \in {"resolved", "rejected"}
        /\ outcome[1].kind \in {"returned", "thrown"}
        /\ outcome[1].kind = "returned" <=>
             (last.settled = "resolved" /\ Normalizes(last.result[1]))
        /\ outcome[1].kind = "returned" =>
             /\ outcome[1].error = << >>
             /\ outcome[1].tier = last.client
             /\ Len(calls) = 2 <=> outcome[1].tier # ClassifiedTier
        /\ outcome[1].kind = "thrown" =>
             /\ outcome[1].response = << >>
             /\ last.settled = "rejected" => outcome[1].error = last.result
             /\ last.settled = "resolved" => outcome[1].error = << TypeError >>

\* C19: a routeRequest whose backend calls each complete is over after at most two
\* calls and three steps, with a response (of the classified tier, or of the power
\* tier after the fallback) or with the error of its last attempt thrown to the
\* caller, never with both or neither; it never goes back to an earlier step.
C19_RouteRequestTerminates ==
  /\ [](EndsWithResponseOrError /\ (rr # "done" => outcome = << >>) /\ Len(calls) <= 2)
  /\ [][/\ Progress(rr') >= Progress(rr)
        /\ (calls' # calls /\ rr' # "idle") => Progress(rr') > Progress(rr)
        /\ rr = "done" => (outcome' = outcome /\ calls' = calls)]_vars
  /\ (rr \in {"first", "fallback"}) ~> (rr = "done")

\* the fallback call was answered with a reply that cannot be normalised, and
\* routeRequest threw
C19_Witness ==
  /\ rr = "done"
  /\ Len(calls) = 2
  /\ calls[2].settled = "resolved"
  /\ outcome[1].kind = "thrown"

\* the request is the one user message whose content is the text
SingleUserMessage(text) == request.messages = << Message("user", StringContent(text)) >>

\* the labels of a signal list that carry the prefix
Labelled(signals, prefix) == { i \in 1..Len(signals) : signals[i][1] = prefix }

\* scored at least 50 with one power_keywords: label and one code: label
HighWithBothLabels(result) ==
  /\ result.score >= 50
  /\ Cardinality(Labelled(result.signals, "power_keywords")) = 1
  /\ Cardinality(Labelled(result.signals, "code")) = 1

\* C20, as stated: under the default thresholds a single user message with the
\* words refactor, architecture and debug and a fenced code block of 40 lines or
\* more, whatever its lines hold, is scored at least 50 and classified to the power
\* tier, with one power_keywords: label and one code: label among its signals.
C20_ComplexMessageToPower ==
  \A text \in ComplexMessagesOf(ComplexWords, CodeLineContents) :
    (config.thresholds = DefaultThresholds /\ SingleUserMessage(text)) =>
      /\ scored # << >> => HighWithBothLabels(scored[1].current)
      /\ classification # << >> =>
           /\ classification[1].usePowerModel
           /\ HighWithBothLabels(classification[1])

\* the messages of the three words and a block whose lines each begin with a
\* statement keyword
MessagesOfStatements == ComplexMessagesOf(ComplexWords, CodeStatement)

\* C20, amended: the same for a block of 40 lines or more that each begin with a
\* statement keyword, under either version of the classifier.
C20_ComplexMessageOfStatements ==
  \A text \in MessagesOfStatements :
    (config.thresholds = DefaultThresholds /\ SingleUserMessage(text)) =>
      /\ scored # << >> =>
           /\ HighWithBothLabels(scored[1].current)
           /\ HighWithBothLabels(scored[1].legacy)
      /\ classification # << >> =>
           /\ classification[1].usePowerModel
           /\ HighWithBothLabels(classification[1])

\* the message of the three words and 40 statement lines was scored, 59 by the
\* older classifier, and classified to the power tier
C20_Witness ==
  /\ config.thresholds = DefaultThresholds
  /\ SingleUserMessage(<< "refactor", "architecture", "debug", "NL" >>
                         \o FencedBlockOf("const", ComplexBlockLines))
  /\ scored # << >> /\ scored[1].legacy.score = 59
  /\ classification # << >> /\ classification[1].usePowerModel

(***************************************************************************)
(* Concurrent calls, under SpecConcurrent.                                 *)
(***************************************************************************)
\* what a routeRequest that is over has to show for its calls: the response built
\* from the reply of its last call, or the error of its last attempt
ResultOf(L, c) ==
  LET last == L.calls[Len(L.calls)]
  IN  IF last.settled = "resolved" /\ Normalizes(last.result[1])
      THEN IF Len(L.calls) = 1 THEN FirstResult(last.result[1], c)
           ELSE FallbackResult(last.result[1], c)
      ELSE Thrown(IF last.settled = "rejected" THEN last.result[1] ELSE TypeError)

\* the classification of each request under the thresholds the router was
\* constructed with
ClassifiedAlone ==
  [ req \in InFlightRequests |-> classifyRequest(req.messages, DefaultThresholds) ]

\* the local variables of a call are what its own request, the configuration and
\* the outcomes of its own backend calls make them when it runs alone
AsIfAlone(L) ==
  L.started =>
    LET c == ClassifiedAlone[L.request]
        chosen == IF c.usePowerModel THEN "power" ELSE "default"
        streaming == L.method = "routeStreamingRequest"
        first == L.calls[1]
        threwError ==
          \/ first.settled = "rejected" /\ first.result[1].instanceOfError
          \/ first.settled = "resolved" /\ ~Normalizes(first.result[1])
    IN  /\ config = Config(DefaultThresholds)
        /\ L.classification = << c >>
        /\ first.client = chosen
        /\ first.model = ConfiguredModel(chosen)
        /\ first.messages = L.request.messages
        /\ first.stream = streaming
        /\ Len(L.calls) = IF ~streaming /\ chosen = "default" /\ threwError THEN 2 ELSE 1
        /\ Len(L.calls) = 2 =>
             /\ L.calls[2].client = "power"
             /\ L.calls[2].messages = L.request.messages
        /\ ~streaming =>
             /\ L.gen = "none" /\ L.emitted = << >>
             /\ L.rr = "done" <=> L.calls[Len(L.calls)].settled # "pending"
             /\ L.outcome = IF L.rr = "done" THEN << ResultOf(L, c) >> ELSE << >>
        /\ streaming =>
             /\ L.rr = "idle" /\ L.outcome = << >>
             /\ L.emitted = [ i \in 1..Len(L.emitted) |-> StreamChunk(L.upstream[i]) ]
             /\ Len(L.upstream) - Len(L.emitted) \in {0, 1}
             /\ first.settled = "rejected" => L.genExit = Exit("threw", first.result)
             /\ L.stream.failure # << >> => L.genExit = Exit("threw", L.stream.failure)

\* a call that awaits its backend or its consumer can take its next step whatever
\* the other calls are doing
NeverWaits ==
  \A r \in InFlight :
    /\ inflight[r].rr \in {"first", "fallback"} =>
         ENABLED (\E error \in InFlightFailures : Rejects(r, error))
    /\ inflight[r].gen = "create" => ENABLED Opens(r)
    /\ inflight[r].gen = "pull" => ENABLED Ends(r)
    /\ inflight[r].gen = "yield" => ENABLED Pulls(r)

\* C17: with the calls of routeRequest and routeStreamingRequest interleaved in
\* every way, each call's classification, tier, backend calls and result are those
\* its own request and the outcomes of its own backend calls determine; none waits
\* for another; and the clients, the config and its thresholds are as the
\* constructor left them.
C17_RequestsIndependent ==
  /\ config = Config(DefaultThresholds)
  /\ clients = Constructed(Config(DefaultThresholds))
  /\ \A r \in InFlight : AsIfAlone(inflight[r])
  /\ NeverWaits

\* a routeRequest of the default tier fell back and is over while a streaming call
\* of the power tier is delivering
C17_Witness ==
  /\ inflight[1].started /\ inflight[2].started
  /\ inflight[1].method = "routeRequest" /\ inflight[2].method = "routeStreamingRequest"
  /\ inflight[1].rr = "done" /\ Len(inflight[1].calls) = 2
  /\ inflight[1].calls[1].client = "default"
  /\ inflight[2].calls[1].client = "power"
  /\ inflight[2].gen = "yield"

(***************************************************************************)
(* Properties of simple requests, under Spec.                              *)
(***************************************************************************)
\* the detectors of calculateComplexityScore that add to the score, on a text
PositiveDetectors(text, thresholds) ==
  LET length == SumLength(text)
  IN  { lengthFactor(length, thresholds),
        codeLinesFactor(countCodeLines(text), thresholds),
        powerKeywordsFactor(countKeywordMatches(text, POWER_KEYWORDS)),
        multiStepFactor(text),
        debuggingFactor(text),
        deepQuestionFactor(text, length),
        academicFactor(text),
        languagesFactor(countKeywordMatches(text, PROGRAMMING_LANGUAGES)),
        questionsFactor(questionCount(text)) }

\* the text matches a simple-task keyword and triggers no positive detector
SimpleText(text, thresholds) ==
  /\ countKeywordMatches(text, SIMPLE_KEYWORDS) > 0
  /\ PositiveDetectors(text, thresholds) = { Nothing }

\* the conversation has one user turn, that turn is simple, and nothing else of the
\* conversation triggers a positive detector
OnlyUserTurnSimple(messages, thresholds) ==
  /\ Cardinality(UserTurns(messages)) = 1
  /\ SimpleText(MostRecentUserText(messages), thresholds)
  /\ PositiveDetectors(extractTextContent(messages), thresholds) = { Nothing }

PowerKeywordFragment(f) ==
  \E k \in 1..Len(POWER_KEYWORDS) : POWER_KEYWORDS[k] \in FragIncludes(f)

\* what the longer text has after the shorter one
Suffix(shorter, longer) == SubSeq(longer, Len(shorter) + 1, Len(longer))

\* the longer text is the shorter one followed by further occurrences of one
\* fragment that holds a power keyword and occurs in the shorter text already,
\* each on the last line or on a line of its own
MoreOfAKeyword(shorter, longer) ==
  \E f \in FragmentsOf(shorter) :
    /\ PowerKeywordFragment(f)
    /\ f \in FragmentsOf(Suffix(shorter, longer))
    /\ FragmentsOf(Suffix(shorter, longer)) \subseteq { f, "NL" }

\* C22: a text scores no less after further occurrences of a power keyword it
\* holds are appended to it than before, under any thresholds.
C22_MoreKeywordsNeverLess ==
  \A i, j \in 1..Len(scored) :
    (i < j /\ MoreOfAKeyword(scored[i].text, scored[j].text)) =>
      scored[j].current.score >= scored[i].current.score

\* the points the code lines factor adds for the text
CodeVolumePoints(text) == codeLinesFactor(countCodeLines(text), config.thresholds).points

\* C27: under fixed thresholds, of two texts the one with more counted code lines
\* gets no smaller a contribution of the code lines factor than the other.
C27_CodeVolumeMonotone ==
  \A i, j \in 1..Len(scored) :
    countCodeLines(scored[i].text) < countCodeLines(scored[j].text) =>
      CodeVolumePoints(scored[i].text) <= CodeVolumePoints(scored[j].text)

(***************************************************************************)
(* Properties of the signals, under SpecClassify.                          *)
(***************************************************************************)
\* what calculateComplexityScore returns for the whole conversation and for the
\* most recent user turn
FullScoring == calculateComplexityScore(extractTextContent(request.messages), config.thresholds)
LastScoring == calculateComplexityScore(MostRecentUserText(request.messages), config.thresholds)

\* C23: the signals classifyRequest reports are those of the whole conversation
\* when its score is at least the score of the last user turn, a tie included, and
\* those of the last user turn only when that turn scores more.
C23_SignalsOfWinningScore ==
  classification # << >> =>
    LET full == FullScoring
        last == LastScoring
    IN  /\ full.score >= last.score => classification[1].signals = full.signals
        /\ last.score > full.score => classification[1].signals = last.signals

\* a tie between two scorings with different signals was classified
C23_Witness ==
  /\ classification # << >>
  /\ FullScoring.score = LastScoring.score
  /\ FullScoring.signals # LastScoring.signals
  /\ classification[1].signals = FullScoring.signals

\* the last user turn outscores the conversation and its signals are reported
C23_LastTurnWins ==
  /\ classification # << >>
  /\ LastScoring.score > FullScoring.score
  /\ LastScoring.signals # FullScoring.signals
  /\ classification[1].signals = LastScoring.signals

\* the contributions listed for the detectors, summed and clamped to 0..100, for a
\* text and the vocabularies of a version of the classifier
ClampedSum(text, thresholds, power, simple) ==
  LET len == SumLength(text)
      lines == countCodeLines(text)
      powerMatches == countKeywordMatches(text, power)
      simpleMatches == countKeywordMatches(text, simple)
      langMatches == countKeywordMatches(text, PROGRAMMING_LANGUAGES)
      count == questionCount(text)
      sum ==
        (IF len > thresholds.minLengthForPower
         THEN Min(20, (len - thresholds.minLengthForPower) \div 100) ELSE 0)
        + (IF lines > thresholds.minCodeLinesForPower
           THEN Min(25, (lines - thresholds.minCodeLinesForPower) \div 2)
           ELSE IF lines > 10 THEN 5 ELSE 0)
        + Min(40, powerMatches * 10)
        - (IF powerMatches = 0 THEN Min(10, simpleMatches * 3) ELSE 0)
        + (IF detectMultiStepReasoning(text) THEN 30 ELSE 0)
        + (IF detectDebugging(text) THEN 25 ELSE 0)
        + (IF deepQuestionPatterns(text) /\ len > 30 THEN 15 ELSE 0)
        + (IF academicPatterns(text) THEN 15 ELSE 0)
        + Min(5, langMatches * 2)
        + (IF count > 2 THEN Min(10, count * 2) ELSE 0)
  IN  IF sum < 0 THEN 0 ELSE IF sum > 100 THEN 100 ELSE sum

\* the score of the newer calculateComplexityScore is the clamped sum
NewerScoreIsClampedSum ==
  scored # << >> =>
    scored[1].current.score
      = ClampedSum(scored[1].text, config.thresholds, POWER_KEYWORDS, SIMPLE_KEYWORDS)

\* C24: the score calculateComplexityScore returns, in either version of the
\* classifier, is the sum, clamped to 0..100, of: min(20, floor((len - minLength) /
\* 100)) when len > minLength; min(25, floor((lines - minCodeLines) / 2)) when lines
\* > minCodeLines, else 5 when lines > 10; min(40, 10 * power matches); -min(10, 3 *
\* simple matches) when no power keyword matches; 30 for multi-step reasoning; 25
\* for a debugging context; 15 for a deep question when len > 30; 15 for an academic
\* topic; min(5, 2 * languages); min(10, 2 * question marks) when there are more
\* than 2.
C24_ScoreIsClampedSum ==
  scored # << >> =>
    /\ scored[1].current.score
         = ClampedSum(scored[1].text, config.thresholds, POWER_KEYWORDS, SIMPLE_KEYWORDS)
    /\ scored[1].legacy.score
         = ClampedSum(scored[1].text, config.thresholds, POWER_KEYWORDS_Legacy,
                      SIMPLE_KEYWORDS_Legacy)

\* the labels in the order of the detectors
DetectorOrder ==
  << "long_message", "code", "power_keywords", "simple_keywords", "multi_step_reasoning",
     "debugging", "deep_question", "academic_topic", "programming", "questions" >>

\* the place of the label's detector in that order, 0 for a label of no detector
DetectorOf(label) ==
  LET places == { k \in 1..Len(DetectorOrder) : DetectorOrder[k] = label[1] }
  IN  IF places = {} THEN 0 ELSE CHOOSE k \in places : TRUE

\* every label is a detector's, and each label's detector comes after the detector
\* of the label before it: no detector has two labels, and the order is fixed
InDetectorOrder(signals) ==
  /\ \A i \in 1..Len(signals) : DetectorOf(signals[i]) > 0
  /\ \A i \in 1..(Len(signals) - 1) : DetectorOf(signals[i]) < DetectorOf(signals[i + 1])

\* C25: the signals of one scoring pass hold at most one label per detector, in the
\* order long_message, code, power_keywords, simple_keywords, multi_step_reasoning,
\* debugging, deep_question, academic_topic, programming, questions; so do the
\* signals classifyRequest reports, which are those of one pass.
C25_OneLabelPerDetectorInOrder ==
  /\ scored # << >> =>
       /\ InDetectorOrder(scored[1].current.signals)
       /\ InDetectorOrder(scored[1].legacy.signals)
  /\ classification # << >> => InDetectorOrder(classification[1].signals)

\* a text was scored on which seven detectors left their label, the code lines
\* factor the first and the languages factor the last
C25_Witness ==
  /\ scored # << >>
  /\ Len(scored[1].current.signals) = 7
  /\ scored[1].current.signals[1][1] = "code"
  /\ scored[1].current.signals[4][1] = "debugging"
  /\ scored[1].current.signals[7][1] = "programming"

(***************************************************************************)
(* Properties of the fallback, under Spec.                                 *)
(***************************************************************************)
\* the backend calls routeRequest made after its first one: the fallback calls
FallbackCalls == { k \in 2..Len(calls) : calls[k].client = "power" }

\* C26: the power backend is called as a fallback only when the call to the default
\* backend itself failed, that is was rejected: never for a request whose default
\* backend call returned a reply, whatever became of that reply, and never for a
\* request classified to the power tier.
C26_FallbackOnlyOnBackendFailure ==
  FallbackCalls # {} =>
    /\ classification # << >> /\ ~classification[1].usePowerModel
    /\ calls[1].client = "default"
    /\ calls[1].settled = "rejected"

(***************************************************************************)
(* Properties of extractTextContent, under SpecClassify.                   *)
(***************************************************************************)
\* the strings a message contributes: its content when that is a string; the texts
\* of its text parts when it is structured; the empty string when it has no text
\* part or no content of either kind
Pieces(msg) ==
  IF msg.content.kind = "string" THEN << msg.content.text >>
  ELSE LET texts == SelectSeq(msg.content.parts, LAMBDA part : part.type = "text")
       IN  IF msg.content.kind # "parts" \/ texts = << >> THEN << << >> >>
           ELSE [ i \in 1..Len(texts) |-> texts[i].text ]

\* the strings of all messages, in message order
RECURSIVE AllPieces(_)
AllPieces(messages) ==
  IF messages = << >> THEN << >>
  ELSE AllPieces(SubSeq(messages, 1, Len(messages) - 1)) \o Pieces(messages[Len(messages)])

\* the strings one after the other, one newline between each two
RECURSIVE NewlineBetween(_)
NewlineBetween(pieces) ==
  IF pieces = << >> THEN << >>
  ELSE LET front == SubSeq(pieces, 1, Len(pieces) - 1)
       IN  (IF front = << >> THEN << >> ELSE NewlineBetween(front) \o << "NL" >>)
             \o pieces[Len(pieces)]

\* C28: the text extractTextContent returns for a message sequence is the string
\* contents verbatim and the text parts of the structured contents, in message and
\* part order, one newline between each two, a message without text giving the
\* empty string; the empty sequence gives the empty string; and what the function
\* returns is a string whatever the message sequence.
C28_TextOfMessages ==
  scored # << >> =>
    /\ scored[1].text = NewlineBetween(AllPieces(request.messages))
    /\ request.messages = << >> => scored[1].text = << >>
    /\ scored[1].text \in Seq(Fragments)

\* the text of a string content, a content without text and a structured content
\* with an image and a text part was extracted
C28_Witness ==
  /\ scored # << >>
  /\ Len(request.messages) = 3
  /\ request.messages[2].content = NullContent
  /\ scored[1].text = << "x", "NL", "NL", "debug" >>

=============================================================================
